---- MODULE Spec2Model ----
(***************************************************************************)
(* Airkeys: the playback / gating engine of the hand-tracked piano game.   *)
(*                                                                         *)
(* The controller modelled first is src/script.js (the Tone.Transport      *)
(* build).  The loader of the modular build, src/js/midi.js, is modelled   *)
(* next to it because its melody/harmony split is different code, and so   *)
(* is the frame loop of the sample-based build (src/unnamed/part_002 with  *)
(* src/js/audio.js), whose pausePlayback and playMelodyNote differ.        *)
(*                                                                         *)
(* Time is counted in hundredths of a second (0.05 s = 5, 0.1 s = 10).     *)
(* Horizontal screen coordinates are counted in half pixels, vertical      *)
(* ones in pixels, so that every quantity of the source is an integer.     *)
(***************************************************************************)
EXTENDS Integers, Sequences, FiniteSets, TLC

VARIABLES
    midi,               \* the parsed MIDI file of the last load (its tracks)
    notes,              \* script.js:5
    melodyNotes,        \* script.js:6
    harmonyNotes,       \* script.js:7
    groups,             \* history: the `group` arrays the split built, in order
    duration,           \* script.js:12
    currentSpeed,       \* script.js:13, in percent (1x = 100)
    currentSong,        \* script.js:15
    isPlaying,          \* script.js:8
    gatedPause,         \* script.js:9
    currentTime,        \* script.js:10
    playedMelodyIds,    \* script.js:37
    touchedMelodyCount, \* script.js:38
    finalScore,         \* script.js:39, a fraction <<numerator, denominator>>
    pianoKeys,          \* script.js:33
    allFingerPoints,    \* script.js:34
    transport,          \* Tone.Transport: position, running flag, scheduled events
    countdowns,         \* live setInterval timers of startPlayback: their `countdown`
    restarts,           \* pending setTimeout(() => startPlayback(), 50) of seekTo
    loads,              \* song/speed handlers suspended in `await loadMIDI(...)`
    animating,          \* TRUE while a requestAnimationFrame(animate) is pending
    endScreens,         \* history: number of showEndScreen() calls
    triggered,          \* history: melody ids sounded by the latest frame
    instrumentBuffers,  \* audio.js:106, the notes the current instrument has a sample of
    canvasHeight,       \* canvas.height (script.js:748), in pixels
    hitResult,          \* history: <<r>> once getTouchedNote has returned r, <<>> is null
    seekTarget,         \* history: <<t>> from a seekTo made while playing to position t until
                        \* the song plays again or another input arrives, else <<>>
    lastSeek,           \* history: <<t>> right after seekTo(t), <<t, t>> after a repeat
    inputs              \* history: number of inputs handled (clicks, selections)

vars == <<midi, notes, melodyNotes, harmonyNotes, groups, duration, currentSpeed,
          currentSong, isPlaying, gatedPause, currentTime, playedMelodyIds,
          touchedMelodyCount, finalScore, pianoKeys, allFingerPoints, transport,
          countdowns, restarts, loads, animating, endScreens, triggered,
          instrumentBuffers, canvasHeight, hitResult, seekTarget, lastSeek,
          inputs>>

scoreVars == <<midi, notes, melodyNotes, harmonyNotes, groups, duration>>

(***************************************************************************)
(* Program constants                                                       *)
(***************************************************************************)
epsilon == 5
timeWindow == 5
AutoMarkMargin == 10
lookAhead == 300
lookBehind == 50
hitZoneTolerance == 50
WHITE_KEY_WIDTH == 30
BLACK_KEY_WIDTH == 20
whiteKeyPattern == {0, 2, 4, 5, 7, 9, 11}
CountdownStart == 3
CanvasHeight == 340

(***************************************************************************)
(* Bounds of the model                                                     *)
(***************************************************************************)
MaxTrackNotes == 3   \* notes in the first track of a file offered to a loader
MaxEvents == 4       \* events in the track of a file offered to the midi.js loader
MaxClock == 30       \* the audio clock is followed up to this reading
MaxInputs == 3       \* clicks, selections and seekTo calls in one session
MaxFrameGap == 2     \* hundredths of a second between two frames, at most
MaxHitTime == 120    \* latest currentTime at which getTouchedNote is called

Abs(x) == IF x < 0 THEN -x ELSE x
Max(a, b) == IF a > b THEN a ELSE b
Min(a, b) == IF a < b THEN a ELSE b

RECURSIVE SeqToSet(_)
SeqToSet(s) == IF s = <<>> THEN {} ELSE {Head(s)} \cup SeqToSet(Tail(s))

Ids(s) == {s[k].id : k \in 1..Len(s)}

\* note.time * TEMPO_MULTIPLIER with TEMPO_MULTIPLIER = 1 / currentSpeed
TEMPO_SCALE(x, speed) == (x * 100) \div speed

(***************************************************************************)
(* loadMIDI of src/script.js (the same loop is in the Tone build of the    *)
(* modular loader): flatten the tracks, sort by time, split by anchor.     *)
(***************************************************************************)

\* the notes of one track with the source timings kept at every speed
TrackNotesUnscaled(track, trackIndex, speed) ==
    [k \in 1..Len(track) |->
        [id       |-> <<trackIndex, k - 1>>,
         midi     |-> track[k].midi,
         time     |-> track[k].time,
         duration |-> track[k].duration]]

\* script.js:76-86, the notes of one track (trackIndex and idx count from 0)
TrackNotes(track, trackIndex, speed) ==
    [k \in 1..Len(track) |->
        [id       |-> <<trackIndex, k - 1>>,
         midi     |-> track[k].midi,
         time     |-> TEMPO_SCALE(track[k].time, speed),
         duration |-> TEMPO_SCALE(track[k].duration, speed)]]

\* script.js:74-87
RECURSIVE ExtractNotes(_, _, _)
ExtractNotes(tracks, t, speed) ==
    IF t > Len(tracks) THEN <<>>
    ELSE TrackNotes(tracks[t], t - 1, speed) \o ExtractNotes(tracks, t + 1, speed)

\* Array.prototype.sort is stable: a note goes behind every note that does
\* not start later than it does.
RECURSIVE InsertByTime(_, _)
InsertByTime(sorted, n) ==
    IF sorted = <<>> THEN <<n>>
    ELSE IF Head(sorted).time <= n.time
         THEN <<Head(sorted)>> \o InsertByTime(Tail(sorted), n)
         ELSE <<n>> \o sorted

\* script.js:89, notes.sort((a, b) => a.time - b.time)
RECURSIVE SortByTime(_)
SortByTime(ns) ==
    IF ns = <<>> THEN <<>>
    ELSE InsertByTime(SortByTime(SubSeq(ns, 1, Len(ns) - 1)), ns[Len(ns)])

\* an inner loop that stops after one note: every note is a group of its own
GroupEndSingle(ns, groupStart, j) == j + 1

\* script.js:98-102, the inner while loop: the index j at which it stops
RECURSIVE GroupEnd(_, _, _)
GroupEnd(ns, groupStart, j) ==
    IF j <= Len(ns) /\ Abs(ns[j].time - groupStart) <= epsilon
    THEN GroupEnd(ns, groupStart, j + 1)
    ELSE j

\* the reduce with >= in place of >: among equal pitches the last one wins
RECURSIVE ReduceMelodyLastWins(_, _, _)
ReduceMelodyLastWins(group, k, acc) ==
    IF k > Len(group) THEN acc
    ELSE ReduceMelodyLastWins(group, k + 1, IF group[k].midi >= acc.midi THEN group[k] ELSE acc)

\* script.js:103, group.reduce((acc, n) => (n.midi > acc.midi ? n : acc), group[0])
RECURSIVE ReduceMelody(_, _, _)
ReduceMelody(group, k, acc) ==
    IF k > Len(group) THEN acc
    ELSE ReduceMelody(group, k + 1, IF group[k].midi > acc.midi THEN group[k] ELSE acc)

\* script.js:105-107, the members of the group that go to harmonyNotes
GroupHarmony(group, melody) ==
    SelectSeq(group, LAMBDA n : n.id # melody.id)

\* script.js:94-109, the outer while loop from index i on
RECURSIVE SplitFrom(_, _, _)
SplitFrom(ns, i, acc) ==
    IF i > Len(ns) THEN acc
    ELSE LET j      == GroupEnd(ns, ns[i].time, i)
             group  == SubSeq(ns, i, j - 1)
             melody == ReduceMelody(group, 1, group[1])
         IN  SplitFrom(ns, j,
                 [melody  |-> Append(acc.melody, melody),
                  harmony |-> acc.harmony \o GroupHarmony(group, melody),
                  groups  |-> Append(acc.groups, group)])

EmptySplit == [melody |-> <<>>, harmony |-> <<>>, groups |-> <<>>]

\* Midi.duration of the @tonejs/midi parser: the latest note end of the file
RECURSIVE LatestEnd(_, _)
LatestEnd(ns, k) ==
    IF k > Len(ns) THEN 0
    ELSE Max(ns[k].time + ns[k].duration, LatestEnd(ns, k + 1))

\* script.js:67-112, what a successful loadMIDI leaves in the score variables
LoadedScore(tracks, speed) ==
    LET sorted == SortByTime(ExtractNotes(tracks, 1, speed))
        split  == SplitFrom(sorted, 1, EmptySplit)
    IN  [midi         |-> tracks,
         notes        |-> sorted,
         melodyNotes  |-> split.melody,
         harmonyNotes |-> split.harmony,
         groups       |-> split.groups,
         duration     |-> TEMPO_SCALE(LatestEnd(ExtractNotes(tracks, 1, 100), 1), speed)]

(***************************************************************************)
(* loadMIDI of the sample-based modular build (src/js/audio.js:341-407):   *)
(* the same anchored split, plus the special case of one song.             *)
(***************************************************************************)
JumpingMachineTranspose == 6

\* audio.js:359, midi: note.midi + (isJumpingMachine ? -6 : 0)
Transposed(ns, isJumpingMachine) ==
    [k \in 1..Len(ns) |->
        [ns[k] EXCEPT !.midi = IF isJumpingMachine THEN @ - JumpingMachineTranspose ELSE @]]

\* audio.js:341-407
LoadedScoreSampled(tracks, speed, isJumpingMachine) ==
    LET sorted == SortByTime(Transposed(ExtractNotes(tracks, 1, speed), isJumpingMachine))
        split  == SplitFrom(sorted, 1, EmptySplit)
    IN  [midi         |-> tracks,
         notes        |-> IF isJumpingMachine THEN SortByTime(split.melody) ELSE sorted,
         melodyNotes  |-> split.melody,
         harmonyNotes |-> IF isJumpingMachine THEN <<>> ELSE split.harmony,
         groups       |-> split.groups,
         duration     |-> TEMPO_SCALE(LatestEnd(ExtractNotes(tracks, 1, 100), 1), speed)]

(***************************************************************************)
(* loadMIDI and separateMelodyHarmony of src/js/midi.js: notes are paired  *)
(* from note-on / note-off events, and the split is a different loop.      *)
(***************************************************************************)
NoteOn == 9
NoteOff == 8
MinParsedDuration == 5
DefaultParsedDuration == 50

\* Map.prototype.set on the activeNotes map, kept in insertion order
RECURSIVE MapSet(_, _, _)
MapSet(active, key, note) ==
    IF active = <<>> THEN <<[key |-> key, note |-> note]>>
    ELSE IF Head(active).key = key
         THEN <<[key |-> key, note |-> note]>> \o Tail(active)
         ELSE <<Head(active)>> \o MapSet(Tail(active), key, note)

MapHas(active, key) == \E k \in 1..Len(active) : active[k].key = key
MapGet(active, key) == active[CHOOSE k \in 1..Len(active) : active[k].key = key].note
MapDelete(active, key) == SelectSeq(active, LAMBDA e : e.key # key)

\* midi.js:38-62, one event of a track
ParseEvent(st, event, trackIndex, speed) ==
    LET now     == st.time + TEMPO_SCALE(event.deltaTime, speed)
        noteKey == <<trackIndex, event.key>>
    IN  IF event.type = NoteOn /\ event.velocity > 0
        THEN [time   |-> now,
              active |-> MapSet(st.active, noteKey,
                                [id |-> <<trackIndex, event.key, now>>,
                                 midi |-> event.key, time |-> now, duration |-> 0]),
              out    |-> st.out]
        ELSE IF MapHas(st.active, noteKey)
        THEN LET note == MapGet(st.active, noteKey)
             IN  [time   |-> now,
                  active |-> MapDelete(st.active, noteKey),
                  out    |-> Append(st.out,
                                [note EXCEPT !.duration = Max(MinParsedDuration, now - note.time)])]
        ELSE [st EXCEPT !.time = now]

\* midi.js:35-64, the events of one track from index k on
RECURSIVE ParseTrack(_, _, _, _, _)
ParseTrack(st, events, k, trackIndex, speed) ==
    IF k > Len(events) THEN st
    ELSE ParseTrack(ParseEvent(st, events[k], trackIndex, speed), events, k + 1, trackIndex, speed)

\* midi.js:35, the tracks from index t on; the clock restarts at every track
RECURSIVE ParseTracks(_, _, _, _)
ParseTracks(st, tracks, t, speed) ==
    IF t > Len(tracks) THEN st
    ELSE ParseTracks(ParseTrack([st EXCEPT !.time = 0], tracks[t], 1, t - 1, speed),
                     tracks, t + 1, speed)

\* midi.js:32-70, state.notes before it is sorted
ParsedNotes(tracks, speed) ==
    LET st == ParseTracks([time |-> 0, active |-> <<>>, out |-> <<>>], tracks, 1, speed)
    IN  st.out \o [k \in 1..Len(st.active) |->
                      [st.active[k].note EXCEPT !.duration = DefaultParsedDuration]]

\* midi.js:94-105, the forEach of separateMelodyHarmony from index k on
RECURSIVE WindowGroups(_, _, _)
WindowGroups(ns, k, st) ==
    IF k > Len(ns) THEN st
    ELSE IF st.currentGroupTime < 0 \/ Abs(ns[k].time - st.currentGroupTime) < timeWindow
         THEN WindowGroups(ns, k + 1,
                  [st EXCEPT !.currentGroup = Append(@, ns[k]), !.currentGroupTime = ns[k].time])
         ELSE WindowGroups(ns, k + 1,
                  [groups |-> IF st.currentGroup # <<>>
                              THEN Append(st.groups, st.currentGroup) ELSE st.groups,
                   currentGroup |-> <<ns[k]>>,
                   currentGroupTime |-> ns[k].time])

\* midi.js:88-109
GroupsByWindow(ns) ==
    LET st == WindowGroups(ns, 1, [groups |-> <<>>, currentGroup |-> <<>>, currentGroupTime |-> -1])
    IN  IF st.currentGroup # <<>> THEN Append(st.groups, st.currentGroup) ELSE st.groups

RECURSIVE InsertByPitchDesc(_, _)
InsertByPitchDesc(sorted, n) ==
    IF sorted = <<>> THEN <<n>>
    ELSE IF Head(sorted).midi >= n.midi
         THEN <<Head(sorted)>> \o InsertByPitchDesc(Tail(sorted), n)
         ELSE <<n>> \o sorted

\* midi.js:120, group.sort((a, b) => b.midi - a.midi), a stable sort
RECURSIVE SortByPitchDesc(_)
SortByPitchDesc(group) ==
    IF group = <<>> THEN <<>>
    ELSE InsertByPitchDesc(SortByPitchDesc(SubSeq(group, 1, Len(group) - 1)), group[Len(group)])

\* midi.js:115-124, the forEach over the groups from index g on
RECURSIVE SeparateFrom(_, _, _)
SeparateFrom(gs, g, acc) ==
    IF g > Len(gs) THEN acc
    ELSE IF Len(gs[g]) = 1
         THEN SeparateFrom(gs, g + 1, [acc EXCEPT !.melody = Append(@, gs[g][1])])
         ELSE LET byPitch == SortByPitchDesc(gs[g])
              IN  SeparateFrom(gs, g + 1,
                      [acc EXCEPT !.melody  = Append(@, byPitch[1]),
                                  !.harmony = @ \o Tail(byPitch)])

\* midi.js:87-127
separateMelodyHarmony(ns) ==
    [SeparateFrom(GroupsByWindow(ns), 1, EmptySplit) EXCEPT !.groups = GroupsByWindow(ns)]

\* midi.js:3-85; previousDuration is state.duration before the call
LoadedScoreParsed(tracks, speed, previousDuration) ==
    LET sorted == SortByTime(ParsedNotes(tracks, speed))
        split  == separateMelodyHarmony(sorted)
    IN  [midi         |-> tracks,
         notes        |-> sorted,
         melodyNotes  |-> split.melody,
         harmonyNotes |-> split.harmony,
         groups       |-> split.groups,
         duration     |-> IF Len(sorted) > 0
                          THEN sorted[Len(sorted)].time + sorted[Len(sorted)].duration
                          ELSE previousDuration]

(***************************************************************************)
(* MIDI files offered to the loaders                                       *)
(***************************************************************************)
Speeds == {50, 100}
Pitches == {60, 64}
RawTimes == {0, 4, 5, 6, 8}
RawDurations == {4, 12}
RawNote == [midi : Pitches, time : RawTimes, duration : {4}]

\* the parser keeps the notes of a track in time order
IsTimeSorted(track) == \A k \in 1..(Len(track) - 1) : track[k].time <= track[k + 1].time

\* a file has one track, or a second track with a single note
SecondTracks == {<<>>} \cup {<<<<n>>>> : n \in [midi : Pitches, time : {0, 5}, duration : RawDurations]}

EventKinds == {[type |-> NoteOn, velocity |-> 100], [type |-> NoteOn, velocity |-> 0],
               [type |-> NoteOff, velocity |-> 0]}
Event ==
    {[type |-> e.type, velocity |-> e.velocity, key |-> p, deltaTime |-> d] :
        e \in EventKinds, p \in Pitches, d \in {0, 4}}

NoFile == <<>>

(***************************************************************************)
(* The state as the script declares it, before init() has run              *)
(***************************************************************************)
StoppedTransport == [seconds |-> 0, started |-> FALSE, events |-> {}]

InitBlank ==
    /\ midi = NoFile
    /\ notes = <<>>
    /\ melodyNotes = <<>>
    /\ harmonyNotes = <<>>
    /\ groups = <<>>
    /\ duration = 0
    /\ currentSpeed = 100
    /\ currentSong = "Kiss The Rain.mid"
    /\ isPlaying = FALSE
    /\ gatedPause = FALSE
    /\ currentTime = 0
    /\ playedMelodyIds = {}
    /\ touchedMelodyCount = 0
    /\ finalScore = <<0, 1>>
    /\ pianoKeys = <<>>
    /\ allFingerPoints = <<>>
    /\ transport = StoppedTransport
    /\ countdowns = <<>>
    /\ restarts = 0
    /\ loads = <<>>
    /\ animating = FALSE
    /\ endScreens = 0
    /\ triggered = {}
    /\ lastSeek = <<>>
    /\ instrumentBuffers = {}
    /\ canvasHeight = CanvasHeight
    /\ hitResult = <<>>
    /\ seekTarget = <<>>
    /\ inputs = 0

controlVars == <<currentSong, isPlaying, gatedPause, currentTime, playedMelodyIds,
                 touchedMelodyCount, finalScore, pianoKeys, allFingerPoints, transport,
                 countdowns, restarts, loads, animating, endScreens, triggered,
                 instrumentBuffers, canvasHeight, hitResult, seekTarget, lastSeek,
                 inputs>>

InstallScore(score) ==
    /\ midi' = score.midi
    /\ notes' = score.notes
    /\ melodyNotes' = score.melodyNotes
    /\ harmonyNotes' = score.harmonyNotes
    /\ groups' = score.groups
    /\ duration' = score.duration

\* script.js loadMIDI on any file at any speed
LoadScriptFile ==
    /\ midi = NoFile
    /\ \E n \in 0..MaxTrackNotes, speed \in Speeds, rest \in SecondTracks :
       \E first \in [1..n -> RawNote] :
          /\ IsTimeSorted(first)
          /\ currentSpeed' = speed
          /\ LET score == LoadedScore(<<first>> \o rest, speed)
             IN  InstallScore(score)
    /\ UNCHANGED controlVars

\* the sample-based build's loadMIDI on any file at any speed
LoadSampledFile ==
    /\ midi = NoFile
    /\ \E n \in 0..MaxTrackNotes, speed \in Speeds, rest \in SecondTracks,
          isJumpingMachine \in BOOLEAN :
       \E first \in [1..n -> RawNote] :
          /\ IsTimeSorted(first)
          /\ currentSpeed' = speed
          /\ LET score == LoadedScoreSampled(<<first>> \o rest, speed, isJumpingMachine)
             IN  InstallScore(score)
    /\ UNCHANGED controlVars

\* midi.js loadMIDI on any event stream at any speed
LoadParsedFile ==
    /\ midi = NoFile
    /\ \E n \in 0..MaxEvents, speed \in Speeds :
       \E track \in [1..n -> Event] :
          /\ currentSpeed' = speed
          /\ LET score == LoadedScoreParsed(<<track>>, speed, duration)
             IN  InstallScore(score)
    /\ UNCHANGED controlVars

LoadNext == LoadScriptFile \/ LoadSampledFile \/ LoadParsedFile

LoadSpec == InitBlank /\ [][LoadNext]_vars

(***************************************************************************)
(* The keyboard (createPianoKeyboard) and the hit test (getTouchedNote)    *)
(***************************************************************************)
MinKey == 21
MaxKey == 108
KeyMargin == 3
PianoHeight == 140
MinNoteHeight == 10

IsWhite(midiNote) == (midiNote % 12) \in whiteKeyPattern

RECURSIVE MinPitch(_, _)
MinPitch(ns, k) == IF k = Len(ns) THEN ns[k].midi ELSE Min(ns[k].midi, MinPitch(ns, k + 1))
RECURSIVE MaxPitchOf(_, _)
MaxPitchOf(ns, k) == IF k = Len(ns) THEN ns[k].midi ELSE Max(ns[k].midi, MaxPitchOf(ns, k + 1))

\* number of white keys in lo..hi
WhiteCount(lo, hi) == Cardinality({m \in lo..hi : IsWhite(m)})

\* script.js:205-216, first loop: the white keys from midiNote on.  A white key
\* is WHITE_KEY_WIDTH wide and sits right of the white keys below it.
RECURSIVE WhiteKeys(_, _, _)
WhiteKeys(minNote, midiNote, maxNote) ==
    IF midiNote > maxNote THEN <<>>
    ELSE (IF IsWhite(midiNote)
          THEN <<[midi |-> midiNote, isWhite |-> TRUE,
                  left |-> 2 * WHITE_KEY_WIDTH * WhiteCount(minNote, midiNote - 1),
                  width |-> 2 * WHITE_KEY_WIDTH]>>
          ELSE <<>>) \o WhiteKeys(minNote, midiNote + 1, maxNote)

\* script.js:218-234, second loop: the black keys from midiNote on, at
\* (whiteIndex - 1) * WHITE_KEY_WIDTH + WHITE_KEY_WIDTH * 0.75
RECURSIVE BlackKeys(_, _, _)
BlackKeys(minNote, midiNote, maxNote) ==
    IF midiNote > maxNote THEN <<>>
    ELSE (IF IsWhite(midiNote)
          THEN <<>>
          ELSE <<[midi |-> midiNote, isWhite |-> FALSE,
                  left |-> 2 * (WhiteCount(minNote, midiNote) - 1) * WHITE_KEY_WIDTH
                           + (WHITE_KEY_WIDTH * 3) \div 2,
                  width |-> 2 * BLACK_KEY_WIDTH]>>)
         \o BlackKeys(minNote, midiNote + 1, maxNote)

\* script.js:197-237, the keys createPianoKeyboard pushes onto pianoKeys.
\* With no notes Math.min() is Infinity and both loops are skipped.
createPianoKeyboard(ns) ==
    IF ns = <<>> THEN <<>>
    ELSE LET minNote == Max(MinKey, MinPitch(ns, 1) - KeyMargin)
             maxNote == Min(MaxKey, MaxPitchOf(ns, 1) + KeyMargin)
         IN  WhiteKeys(minNote, minNote, maxNote) \o BlackKeys(minNote, minNote, maxNote)

HasKey(keys, midiNote) == \E k \in 1..Len(keys) : keys[k].midi = midiNote
\* script.js:461, pianoKeys.find(k => k.midi === note.midi)
FindKey(keys, midiNote) ==
    keys[CHOOSE k \in 1..Len(keys) :
            /\ keys[k].midi = midiNote
            /\ \A j \in 1..(k - 1) : keys[j].midi # midiNote]

hitZoneY == (canvasHeight * 6) \div 10
pianoTopY == canvasHeight - PianoHeight
\* pixels per hundredth of a second
pixelsPerSecond == (canvasHeight - PianoHeight) \div 200

\* the inner loop without its test at script.js:453
TouchesPlayedToo(fingerPoint, note, played, time, keys) ==
    LET timeDiff == note.time - time
    IN  /\ timeDiff > -lookBehind
        /\ timeDiff < lookAhead
        /\ HasKey(keys, note.midi)
        /\ LET keyData    == FindKey(keys, note.midi)
               keyX       == keyData.left + keyData.width \div 2
               noteY      == pianoTopY - timeDiff * pixelsPerSecond
               noteWidth  == IF keyData.isWhite THEN WHITE_KEY_WIDTH - 4 ELSE BLACK_KEY_WIDTH - 2
               noteHeight == Max(MinNoteHeight, note.duration * pixelsPerSecond)
               noteBottom == noteY
               noteTop    == noteY - noteHeight
               noteLeft   == keyX - noteWidth
               noteRight  == keyX + noteWidth
           IN  /\ noteBottom >= hitZoneY - hitZoneTolerance
               /\ noteTop <= hitZoneY + hitZoneTolerance
               /\ fingerPoint.x >= noteLeft
               /\ fingerPoint.x <= noteRight
               /\ fingerPoint.y >= noteTop
               /\ fingerPoint.y <= noteBottom

\* the inner loop with the band test and the point test made strict
TouchesStrictly(fingerPoint, note, played, time, keys) ==
    LET timeDiff == note.time - time
    IN  /\ note.id \notin played
        /\ timeDiff > -lookBehind
        /\ timeDiff < lookAhead
        /\ HasKey(keys, note.midi)
        /\ LET keyData    == FindKey(keys, note.midi)
               keyX       == keyData.left + keyData.width \div 2
               noteY      == pianoTopY - timeDiff * pixelsPerSecond
               noteWidth  == IF keyData.isWhite THEN WHITE_KEY_WIDTH - 4 ELSE BLACK_KEY_WIDTH - 2
               noteHeight == Max(MinNoteHeight, note.duration * pixelsPerSecond)
               noteBottom == noteY
               noteTop    == noteY - noteHeight
               noteLeft   == keyX - noteWidth
               noteRight  == keyX + noteWidth
           IN  /\ noteBottom > hitZoneY - hitZoneTolerance
               /\ noteTop < hitZoneY + hitZoneTolerance
               /\ fingerPoint.x > noteLeft
               /\ fingerPoint.x < noteRight
               /\ fingerPoint.y > noteTop
               /\ fingerPoint.y < noteBottom

\* script.js:456-481, the body of the inner loop: does fingerPoint touch note
Touches(fingerPoint, note, played, time, keys) ==
    LET timeDiff == note.time - time
    IN  /\ note.id \notin played
        /\ timeDiff > -lookBehind
        /\ timeDiff < lookAhead
        /\ HasKey(keys, note.midi)
        /\ LET keyData    == FindKey(keys, note.midi)
               keyX       == keyData.left + keyData.width \div 2
               noteY      == pianoTopY - timeDiff * pixelsPerSecond
               noteWidth  == IF keyData.isWhite THEN WHITE_KEY_WIDTH - 4 ELSE BLACK_KEY_WIDTH - 2
               noteHeight == Max(MinNoteHeight, note.duration * pixelsPerSecond)
               noteBottom == noteY
               noteTop    == noteY - noteHeight
               noteLeft   == keyX - noteWidth
               noteRight  == keyX + noteWidth
           IN  /\ noteBottom >= hitZoneY - hitZoneTolerance
               /\ noteTop <= hitZoneY + hitZoneTolerance
               /\ fingerPoint.x >= noteLeft
               /\ fingerPoint.x <= noteRight
               /\ fingerPoint.y >= noteTop
               /\ fingerPoint.y <= noteBottom

\* the two loops nested the other way round: melody notes outside, hand
\* points inside
RECURSIVE ScanTouchedNotesOuter(_, _, _, _, _, _, _)
ScanTouchedNotesOuter(points, p, n, melody, played, time, keys) ==
    IF n > Len(melody) THEN <<>>
    ELSE IF p > Len(points) THEN ScanTouchedNotesOuter(points, 1, n + 1, melody, played, time, keys)
    ELSE IF Touches(points[p], melody[n], played, time, keys) THEN <<melody[n]>>
    ELSE ScanTouchedNotesOuter(points, p + 1, n, melody, played, time, keys)

\* script.js:451-484, the two loops from (point p, note n) on; <<>> is null
RECURSIVE ScanTouched(_, _, _, _, _, _, _)
ScanTouched(points, p, n, melody, played, time, keys) ==
    IF p > Len(points) THEN <<>>
    ELSE IF n > Len(melody) THEN ScanTouched(points, p + 1, 1, melody, played, time, keys)
    ELSE IF Touches(points[p], melody[n], played, time, keys) THEN <<melody[n]>>
    ELSE ScanTouched(points, p, n + 1, melody, played, time, keys)

\* script.js:439-485
getTouchedNote(points, melody, played, time, keys) ==
    IF Len(points) = 0 \/ Len(keys) = 0 THEN <<>>
    ELSE ScanTouched(points, 1, 1, melody, played, time, keys)

(***************************************************************************)
(* The controller of src/script.js                                         *)
(***************************************************************************)

\* a pausePlayback without Tone.Transport.cancel()
pausePlaybackNoCancel(tr) ==
    [isPlaying   |-> FALSE,
     currentTime |-> tr.seconds,
     transport   |-> [seconds |-> 0, started |-> FALSE, events |-> tr.events]]

\* script.js:362-366: the fields pausePlayback writes.  Transport.stop()
\* rewinds the transport, Transport.cancel() drops its events.
pausePlayback(tr) ==
    [isPlaying   |-> FALSE,
     currentTime |-> tr.seconds,
     transport   |-> [seconds |-> 0, started |-> FALSE, events |-> {}]]

\* script.js:327-328: startPlayback creates one interval timer
startPlayback(timers) == Append(timers, CountdownStart)

\* a scheduleNotes without its Tone.Transport.cancel(): the triggers of the
\* earlier passes stay on the transport
scheduleNotesKeeping(tr, harmony, time) ==
    [seconds |-> tr.seconds,
     started |-> TRUE,
     events  |-> tr.events \cup
                 {[id |-> harmony[k].id, time |-> harmony[k].time] :
                     k \in {j \in 1..Len(harmony) : harmony[j].time >= time}}]

\* a scheduleNotes that schedules every note of the score, melody included
scheduleNotesEveryNote(tr, harmony, time) ==
    [seconds |-> tr.seconds,
     started |-> TRUE,
     events  |-> {[id |-> notes[k].id, time |-> notes[k].time] :
                     k \in {j \in 1..Len(notes) : notes[j].time >= time}}]

\* a scheduleNotes that starts the transport from 0
scheduleNotesFromZero(tr, harmony, time) ==
    [seconds |-> 0,
     started |-> TRUE,
     events  |-> {[id |-> harmony[k].id, time |-> harmony[k].time] :
                     k \in {j \in 1..Len(harmony) : harmony[j].time >= time}}]

\* script.js:391-406
scheduleNotes(tr, harmony, time) ==
    [seconds |-> tr.seconds,
     started |-> TRUE,
     events  |-> {[id |-> harmony[k].id, time |-> harmony[k].time] :
                     k \in {j \in 1..Len(harmony) : harmony[j].time >= time}}]

\* a frame that marks every passed note of the score, harmony included
AutoMarkedAnyNote(melody, played, time) ==
    played \cup {notes[k].id : k \in {j \in 1..Len(notes) :
                                        /\ notes[j].id \notin played
                                        /\ notes[j].time < time - AutoMarkMargin}}

\* a frame that marks no passed note
AutoMarkedNever(melody, played, time) == played

\* script.js:419-423, the ids the frame marks as passed
AutoMarked(melody, played, time) ==
    played \cup {melody[k].id : k \in {j \in 1..Len(melody) :
                                         /\ melody[j].id \notin played
                                         /\ melody[j].time < time - AutoMarkMargin}}

\* a gate that credits every unplayed note of the score around the touch
simultaneousNotesOfScore(melody, played, touchedNote) ==
    SelectSeq(notes, LAMBDA note : /\ note.id \notin played
                                   /\ Abs(note.time - touchedNote.time) <= epsilon)

\* script.js:493-496
simultaneousNotes(melody, played, touchedNote) ==
    SelectSeq(melody, LAMBDA note : /\ note.id \notin played
                                    /\ Abs(note.time - touchedNote.time) <= epsilon)

\* the division without the guard for an empty melody
showEndScreenUnguarded(touched, melody) == <<touched * 100, Len(melody)>>

\* script.js:693; the score is the fraction <<numerator, denominator>>
showEndScreen(touched, melody) ==
    IF Len(melody) > 0 THEN <<touched * 100, Len(melody)>> ELSE <<0, 1>>

\* the comparison with <= in place of <
SeekPlayedIdsInclusive(melody, time) ==
    {melody[k].id : k \in {j \in 1..Len(melody) : melody[j].time <= time - AutoMarkMargin}}

\* script.js:376-382, the ids seekTo leaves in playedMelodyIds
SeekPlayedIds(melody, time) ==
    {melody[k].id : k \in {j \in 1..Len(melody) : melody[j].time < time - AutoMarkMargin}}

\* script.js:373
ClampTime(time, total) == Max(0, Min(time, total))

\* a seek that leaves the transport where it was
SetTransportSecondsLost(tr, time) == tr

\* script.js:374, Tone.Transport.seconds = currentTime
SetTransportSeconds(tr, time) == [tr EXCEPT !.seconds = time]

(***************************************************************************)
(* The songs on the server, the hands in front of the camera               *)
(***************************************************************************)
DefaultSong == "Kiss The Rain.mid"
Songs == {"Kiss The Rain.mid", "Silence.mid"}

\* the tracks the parser returns for a song file
SongFile(song) ==
    CASE song = "Kiss The Rain.mid" ->
            << <<[midi |-> 60, time |-> 0, duration |-> 4],
                 [midi |-> 64, time |-> 4, duration |-> 4],
                 [midi |-> 62, time |-> 8, duration |-> 6]>>,
               <<[midi |-> 55, time |-> 8, duration |-> 4]>> >>
      [] song = "River Flows In You.mid" ->
            << <<[midi |-> 64, time |-> 70, duration |-> 4],
                 [midi |-> 64, time |-> 76, duration |-> 4],
                 [midi |-> 62, time |-> 82, duration |-> 4],
                 [midi |-> 64, time |-> 200, duration |-> 4]>>,
               <<[midi |-> 55, time |-> 70, duration |-> 4]>> >>
      [] OTHER -> << <<>> >>

\* script.js:67-112, the score loadMIDI builds from each song at each speed
SongScore ==
    [song \in Songs, speed \in Speeds |-> LoadedScore(SongFile(song), speed)]

\* finger positions: over key 64 and over key 62 of the first song's
\* keyboard, a little above the keyboard
OverKey64 == [x |-> 450, y |-> 198]
OverKey62 == [x |-> 390, y |-> 198]
FingerLists == {<<>>, <<OverKey64>>, <<OverKey62, OverKey64>>}

\* seek targets: below 0, 0, around the marks of the melody notes, past the end
SeekTimes == {-1, 0, 10, 11, 19, MaxClock + 1}

(***************************************************************************)
(* State after init(): default song loaded at 1x, keyboard built, the      *)
(* animation loop running, nothing playing.                                *)
(***************************************************************************)
Init ==
    /\ LET score == LoadedScore(SongFile(DefaultSong), 100)
       IN  /\ midi = score.midi
           /\ notes = score.notes
           /\ melodyNotes = score.melodyNotes
           /\ harmonyNotes = score.harmonyNotes
           /\ groups = score.groups
           /\ duration = score.duration
           /\ pianoKeys = createPianoKeyboard(score.notes)
    /\ currentSpeed = 100
    /\ currentSong = DefaultSong
    /\ isPlaying = FALSE
    /\ gatedPause = FALSE
    /\ currentTime = 0
    /\ playedMelodyIds = {}
    /\ touchedMelodyCount = 0
    /\ finalScore = <<0, 1>>
    /\ allFingerPoints = <<>>
    /\ transport = StoppedTransport
    /\ countdowns = <<>>
    /\ restarts = 0
    /\ loads = <<>>
    /\ animating = TRUE
    /\ endScreens = 0
    /\ triggered = {}
    /\ lastSeek = <<>>
    /\ instrumentBuffers = {}
    /\ canvasHeight = CanvasHeight
    /\ hitResult = <<>>
    /\ seekTarget = <<>>
    /\ inputs = 0

\* the audio clock moves on by one hundredth of a second; while frames are
\* drawn it is read at least every MaxFrameGap hundredths
Elapse ==
    /\ transport.started
    /\ transport.seconds < MaxClock
    /\ (isPlaying /\ animating) => transport.seconds + 1 - currentTime <= MaxFrameGap
    /\ transport' = [transport EXCEPT !.seconds = @ + 1]
    /\ lastSeek' = <<>>
    /\ UNCHANGED <<inputs, instrumentBuffers, canvasHeight, hitResult, seekTarget>>
    /\ UNCHANGED <<scoreVars, currentSpeed, currentSong, isPlaying, gatedPause, currentTime,
                   playedMelodyIds, touchedMelodyCount, finalScore, pianoKeys,
                   allFingerPoints, countdowns, restarts, loads, animating, endScreens,
                   triggered>>

\* script.js:165-195, the hand tracker delivers the points of a camera frame
onHandsResults ==
    /\ \E points \in FingerLists :
          /\ points # allFingerPoints
          /\ allFingerPoints' = points
    /\ lastSeek' = <<>>
    /\ UNCHANGED <<inputs, instrumentBuffers, canvasHeight, hitResult, seekTarget>>
    /\ UNCHANGED <<scoreVars, currentSpeed, currentSong, isPlaying, gatedPause, currentTime,
                   playedMelodyIds, touchedMelodyCount, finalScore, pianoKeys, transport,
                   countdowns, restarts, loads, animating, endScreens, triggered>>

\* a gate that credits the notes that are due whether or not a hand touches
handleMelodyGateUntouched(played, time) ==
    LET due == SelectSeq(melodyNotes, LAMBDA note : /\ note.id \notin played
                                                    /\ Abs(note.time - time) <= epsilon)
    IN  [played    |-> played \cup Ids(due),
         touched   |-> touchedMelodyCount + Len(due),
         sounded   |-> Ids(due),
         countdown |-> gatedPause]

\* script.js:487-504 with playMelodyNote (506-510): the fields the gate
\* leaves, given the played set and the time the frame has reached
handleMelodyGate(played, time) ==
    LET touchedNote == getTouchedNote(allFingerPoints, melodyNotes, played, time, pianoKeys)
        hit == IF touchedNote = <<>> \/ ~(gatedPause \/ isPlaying) THEN <<>>
               ELSE simultaneousNotes(melodyNotes, played, touchedNote[1])
    IN  [played    |-> played \cup Ids(hit),
         touched   |-> touchedMelodyCount + Len(hit),
         sounded   |-> Ids(hit),
         countdown |-> touchedNote # <<>> /\ gatedPause]

\* a completion frame that requests the next frame like every other frame
animateRescheduling ==
    /\ animating
    /\ lastSeek' = <<>>
    /\ UNCHANGED <<inputs, instrumentBuffers, canvasHeight, hitResult, seekTarget>>
    /\ IF isPlaying /\ transport.seconds >= duration
       THEN \* 411-416: currentTime = duration; pausePlayback(); showEndScreen(); return
            LET paused == pausePlayback(transport)
            IN  /\ isPlaying' = paused.isPlaying
                /\ currentTime' = paused.currentTime
                /\ transport' = paused.transport
                /\ finalScore' = showEndScreen(touchedMelodyCount, melodyNotes)
                /\ endScreens' = endScreens + 1
                /\ animating' = TRUE
                /\ triggered' = {}
                /\ UNCHANGED <<playedMelodyIds, touchedMelodyCount, countdowns, gatedPause>>
       ELSE LET time   == IF isPlaying THEN transport.seconds ELSE currentTime
                marked == IF isPlaying THEN AutoMarked(melodyNotes, playedMelodyIds, time)
                          ELSE playedMelodyIds
                gate   == IF isPlaying \/ gatedPause THEN handleMelodyGate(marked, time)
                          ELSE [played |-> marked, touched |-> touchedMelodyCount,
                                sounded |-> {}, countdown |-> FALSE]
            IN  /\ currentTime' = time
                /\ playedMelodyIds' = gate.played
                /\ touchedMelodyCount' = gate.touched
                /\ triggered' = gate.sounded
                /\ countdowns' = IF gate.countdown THEN startPlayback(countdowns) ELSE countdowns
                /\ UNCHANGED <<isPlaying, transport, finalScore, endScreens, animating, gatedPause>>
    /\ UNCHANGED <<scoreVars, currentSpeed, currentSong, pianoKeys, allFingerPoints, restarts,
                   loads>>

\* a frame that reads the clock and marks passed notes also when not playing
animateReadingClock ==
    /\ animating
    /\ lastSeek' = <<>>
    /\ UNCHANGED <<inputs, instrumentBuffers, canvasHeight, hitResult, seekTarget>>
    /\ IF isPlaying /\ transport.seconds >= duration
       THEN \* 411-416: currentTime = duration; pausePlayback(); showEndScreen(); return
            LET paused == pausePlayback(transport)
            IN  /\ isPlaying' = paused.isPlaying
                /\ currentTime' = paused.currentTime
                /\ transport' = paused.transport
                /\ finalScore' = showEndScreen(touchedMelodyCount, melodyNotes)
                /\ endScreens' = endScreens + 1
                /\ animating' = FALSE
                /\ triggered' = {}
                /\ UNCHANGED <<playedMelodyIds, touchedMelodyCount, countdowns, gatedPause>>
       ELSE LET time   == transport.seconds
                marked == AutoMarked(melodyNotes, playedMelodyIds, time)
                gate   == IF isPlaying \/ gatedPause THEN handleMelodyGate(marked, time)
                          ELSE [played |-> marked, touched |-> touchedMelodyCount,
                                sounded |-> {}, countdown |-> FALSE]
            IN  /\ currentTime' = time
                /\ playedMelodyIds' = gate.played
                /\ touchedMelodyCount' = gate.touched
                /\ triggered' = gate.sounded
                /\ countdowns' = IF gate.countdown THEN startPlayback(countdowns) ELSE countdowns
                /\ UNCHANGED <<isPlaying, transport, finalScore, endScreens, animating, gatedPause>>
    /\ UNCHANGED <<scoreVars, currentSpeed, currentSong, pianoKeys, allFingerPoints, restarts,
                   loads>>

\* script.js:408-437, one animation frame
animate ==
    /\ animating
    /\ lastSeek' = <<>>
    /\ UNCHANGED <<inputs, instrumentBuffers, canvasHeight, hitResult, seekTarget>>
    /\ IF isPlaying /\ transport.seconds >= duration
       THEN \* 411-416: currentTime = duration; pausePlayback(); showEndScreen(); return
            LET paused == pausePlayback(transport)
            IN  /\ isPlaying' = paused.isPlaying
                /\ currentTime' = paused.currentTime
                /\ transport' = paused.transport
                /\ finalScore' = showEndScreen(touchedMelodyCount, melodyNotes)
                /\ endScreens' = endScreens + 1
                /\ animating' = FALSE
                /\ triggered' = {}
                /\ UNCHANGED <<playedMelodyIds, touchedMelodyCount, countdowns, gatedPause>>
       ELSE LET time   == IF isPlaying THEN transport.seconds ELSE currentTime
                marked == IF isPlaying THEN AutoMarked(melodyNotes, playedMelodyIds, time)
                          ELSE playedMelodyIds
                gate   == IF isPlaying \/ gatedPause THEN handleMelodyGate(marked, time)
                          ELSE [played |-> marked, touched |-> touchedMelodyCount,
                                sounded |-> {}, countdown |-> FALSE]
            IN  /\ currentTime' = time
                /\ playedMelodyIds' = gate.played
                /\ touchedMelodyCount' = gate.touched
                /\ triggered' = gate.sounded
                /\ countdowns' = IF gate.countdown THEN startPlayback(countdowns) ELSE countdowns
                /\ UNCHANGED <<isPlaying, transport, finalScore, endScreens, animating, gatedPause>>
    /\ UNCHANGED <<scoreVars, currentSpeed, currentSong, pianoKeys, allFingerPoints, restarts,
                   loads>>

\* a play button whose pause enters the gated pause
togglePlaybackGating ==
    /\ lastSeek' = <<>>
    /\ inputs < MaxInputs /\ inputs' = inputs + 1
    /\ UNCHANGED <<instrumentBuffers, canvasHeight, hitResult>>
    /\ seekTarget' = <<>>
    /\ IF ~isPlaying /\ ~gatedPause
       THEN /\ countdowns' = startPlayback(countdowns)
            /\ UNCHANGED <<isPlaying, currentTime, transport, gatedPause>>
       ELSE LET paused == pausePlayback(transport)
            IN  /\ isPlaying' = paused.isPlaying
                /\ currentTime' = paused.currentTime
                /\ transport' = paused.transport
                /\ gatedPause' = TRUE
                /\ UNCHANGED countdowns
    /\ UNCHANGED <<scoreVars, currentSpeed, currentSong, playedMelodyIds,
                   touchedMelodyCount, finalScore, pianoKeys, allFingerPoints, restarts,
                   loads, animating, endScreens, triggered>>

\* script.js:314-320, the play button
togglePlayback ==
    /\ lastSeek' = <<>>
    /\ inputs < MaxInputs /\ inputs' = inputs + 1
    /\ UNCHANGED <<instrumentBuffers, canvasHeight, hitResult>>
    /\ seekTarget' = <<>>
    /\ IF ~isPlaying /\ ~gatedPause
       THEN /\ countdowns' = startPlayback(countdowns)
            /\ UNCHANGED <<isPlaying, currentTime, transport>>
       ELSE LET paused == pausePlayback(transport)
            IN  /\ isPlaying' = paused.isPlaying
                /\ currentTime' = paused.currentTime
                /\ transport' = paused.transport
                /\ UNCHANGED countdowns
    /\ UNCHANGED <<scoreVars, currentSpeed, currentSong, gatedPause, playedMelodyIds,
                   touchedMelodyCount, finalScore, pianoKeys, allFingerPoints, restarts,
                   loads, animating, endScreens, triggered>>

RemoveAt(s, i) == SubSeq(s, 1, i - 1) \o SubSeq(s, i + 1, Len(s))

\* script.js:328-359, a countdown timer fires
countdownInterval ==
    /\ lastSeek' = <<>>
    /\ UNCHANGED <<inputs, instrumentBuffers, canvasHeight, hitResult>>
    /\ \E i \in 1..Len(countdowns) :
          IF countdowns[i] - 1 < 0
          THEN /\ countdowns' = RemoveAt(countdowns, i)
               /\ isPlaying' = TRUE
               /\ gatedPause' = FALSE
               /\ seekTarget' = <<>>
               /\ transport' = scheduleNotes(SetTransportSeconds(transport, currentTime),
                                             harmonyNotes, currentTime)
          ELSE /\ countdowns' = [countdowns EXCEPT ![i] = @ - 1]
               /\ UNCHANGED <<isPlaying, gatedPause, transport, seekTarget>>
    /\ UNCHANGED <<scoreVars, currentSpeed, currentSong, currentTime, playedMelodyIds,
                   touchedMelodyCount, finalScore, pianoKeys, allFingerPoints, restarts,
                   loads, animating, endScreens, triggered>>

\* script.js:372-389
seekTo(time) ==
    LET target == ClampTime(time, duration)
        synced == SetTransportSeconds(transport, target)
    IN  /\ lastSeek' = IF lastSeek = <<time>> THEN <<time, time>> ELSE <<time>>
        /\ inputs < MaxInputs /\ inputs' = inputs + 1
        /\ UNCHANGED <<instrumentBuffers, canvasHeight, hitResult>>
        /\ playedMelodyIds' = SeekPlayedIds(melodyNotes, target)
        /\ touchedMelodyCount' = 0
        /\ IF isPlaying
           THEN LET paused == pausePlayback(synced)
                IN  /\ isPlaying' = paused.isPlaying
                    /\ currentTime' = paused.currentTime
                    /\ transport' = paused.transport
                    /\ restarts' = restarts + 1
                    /\ seekTarget' = <<target>>
           ELSE /\ currentTime' = target
                /\ transport' = synced
                /\ UNCHANGED <<isPlaying, restarts>>
                /\ seekTarget' = <<>>
        /\ UNCHANGED <<scoreVars, currentSpeed, currentSong, gatedPause, finalScore, pianoKeys,
                       allFingerPoints, countdowns, loads, animating, endScreens, triggered>>

\* script.js:248-251, the progress bar, and direct calls of seekTo
Seek == \E time \in SeekTimes : seekTo(time)

\* script.js:386, the timer seekTo set fires
seekRestart ==
    /\ restarts > 0
    /\ restarts' = restarts - 1
    /\ countdowns' = startPlayback(countdowns)
    /\ lastSeek' = <<>>
    /\ UNCHANGED <<inputs, instrumentBuffers, canvasHeight, hitResult, seekTarget>>
    /\ UNCHANGED <<scoreVars, currentSpeed, currentSong, isPlaying, gatedPause, currentTime,
                   playedMelodyIds, touchedMelodyCount, finalScore, pianoKeys,
                   allFingerPoints, transport, loads, animating, endScreens, triggered>>

\* a handler waiting at `await loadMIDI(...)` (script.js:265, 281): the file
\* it asked for and, as history, whether the song was playing when it was
\* invoked
Load(handler, filename) ==
    [handler |-> handler, filename |-> filename, wasPlaying |-> isPlaying]

\* script.js:253-265, the song select up to `await loadMIDI(currentSong)`
songChange ==
    /\ lastSeek' = <<>>
    /\ inputs < MaxInputs /\ inputs' = inputs + 1
    /\ UNCHANGED <<instrumentBuffers, canvasHeight, hitResult>>
    /\ seekTarget' = <<>>
    /\ \E song \in Songs \ {currentSong} :
          /\ currentSong' = song
          /\ loads' = Append(loads, Load("song", song))
    /\ pianoKeys' = <<>>
    /\ IF isPlaying
       THEN LET paused == pausePlayback(transport)
            IN  /\ isPlaying' = paused.isPlaying
                /\ currentTime' = paused.currentTime
                /\ transport' = paused.transport
       ELSE UNCHANGED <<isPlaying, currentTime, transport>>
    /\ UNCHANGED <<scoreVars, currentSpeed, gatedPause, playedMelodyIds, touchedMelodyCount,
                   finalScore, allFingerPoints, countdowns, restarts, animating, endScreens,
                   triggered>>

\* script.js:277-281, the speed select up to `await loadMIDI(currentSong)`
speedChange ==
    /\ lastSeek' = <<>>
    /\ inputs < MaxInputs /\ inputs' = inputs + 1
    /\ UNCHANGED <<instrumentBuffers, canvasHeight, hitResult>>
    /\ seekTarget' = <<>>
    /\ \E speed \in Speeds \ {currentSpeed} : currentSpeed' = speed
    /\ loads' = Append(loads, Load("speed", currentSong))
    /\ UNCHANGED <<scoreVars, currentSong, isPlaying, gatedPause, currentTime, playedMelodyIds,
                   touchedMelodyCount, finalScore, pianoKeys, allFingerPoints, transport,
                   countdowns, restarts, animating, endScreens, triggered>>

\* script.js:68-70 throws (fetch rejects, or the bytes are no MIDI file): the
\* handler's catch logs the error and nothing else is written
loadFailed ==
    /\ lastSeek' = <<>>
    /\ UNCHANGED <<inputs, instrumentBuffers, canvasHeight, hitResult, seekTarget>>
    /\ \E i \in 1..Len(loads) : loads' = RemoveAt(loads, i)
    /\ UNCHANGED <<scoreVars, currentSpeed, currentSong, isPlaying, gatedPause, currentTime,
                   playedMelodyIds, touchedMelodyCount, finalScore, pianoKeys,
                   allFingerPoints, transport, countdowns, restarts, animating, endScreens,
                   triggered>>

\* script.js:265-271, the song handler resumes after loadMIDI
songLoaded ==
    /\ lastSeek' = <<>>
    /\ UNCHANGED <<inputs, instrumentBuffers, canvasHeight, hitResult, seekTarget>>
    /\ \E i \in 1..Len(loads) :
          /\ loads[i].handler = "song"
          /\ loads' = RemoveAt(loads, i)
          /\ LET score == SongScore[loads[i].filename, currentSpeed]
             IN  /\ InstallScore(score)
                 /\ pianoKeys' = pianoKeys \o createPianoKeyboard(score.notes)
    /\ currentTime' = 0
    /\ playedMelodyIds' = {}
    /\ touchedMelodyCount' = 0
    /\ UNCHANGED <<currentSpeed, currentSong, isPlaying, gatedPause, finalScore,
                   allFingerPoints, transport, countdowns, restarts, animating, endScreens,
                   triggered>>

\* script.js:281-292, the speed handler resumes after loadMIDI
speedLoaded ==
    /\ lastSeek' = <<>>
    /\ UNCHANGED <<inputs, instrumentBuffers, canvasHeight, hitResult, seekTarget>>
    /\ \E i \in 1..Len(loads) :
          /\ loads[i].handler = "speed"
          /\ loads' = RemoveAt(loads, i)
          /\ LET score == SongScore[loads[i].filename, currentSpeed]
             IN  InstallScore(score)
    /\ playedMelodyIds' = {}
    /\ touchedMelodyCount' = 0
    /\ IF isPlaying
       THEN LET paused == pausePlayback(transport)
            IN  /\ isPlaying' = paused.isPlaying
                /\ currentTime' = paused.currentTime
                /\ transport' = paused.transport
                /\ countdowns' = startPlayback(countdowns)
       ELSE /\ currentTime' = 0
            /\ UNCHANGED <<isPlaying, transport, countdowns>>
    /\ UNCHANGED <<currentSpeed, currentSong, gatedPause, finalScore, pianoKeys,
                   allFingerPoints, restarts, animating, endScreens, triggered>>

\* script.js:303-311 with setInstrument (766-767)
instrumentChange ==
    /\ lastSeek' = <<>>
    /\ inputs < MaxInputs /\ inputs' = inputs + 1
    /\ UNCHANGED <<instrumentBuffers, canvasHeight, hitResult>>
    /\ seekTarget' = <<>>
    /\ IF isPlaying
       THEN LET paused == pausePlayback(transport)
            IN  /\ isPlaying' = paused.isPlaying
                /\ currentTime' = paused.currentTime
                /\ transport' = paused.transport
       ELSE /\ transport' = [transport EXCEPT !.events = {}]
            /\ UNCHANGED <<isPlaying, currentTime>>
    /\ UNCHANGED <<scoreVars, currentSpeed, currentSong, gatedPause, playedMelodyIds,
                   touchedMelodyCount, finalScore, pianoKeys, allFingerPoints, countdowns,
                   restarts, loads, animating, endScreens, triggered>>

Next ==
    \/ Elapse
    \/ onHandsResults
    \/ animate
    \/ togglePlayback
    \/ countdownInterval
    \/ Seek
    \/ seekRestart
    \/ songChange
    \/ speedChange
    \/ loadFailed
    \/ songLoaded
    \/ speedLoaded
    \/ instrumentChange

Spec == Init /\ [][Next]_vars

\* the same controller when every load succeeds, with the scheduling the
\* browser gives: an interval timer keeps firing until it is cleared
\* (script.js:328), a timeout fires (script.js:386) and an awaited load
\* resolves (script.js:265, 281)
LiveNext ==
    \/ Elapse
    \/ onHandsResults
    \/ animate
    \/ togglePlayback
    \/ countdownInterval
    \/ Seek
    \/ seekRestart
    \/ songChange
    \/ speedChange
    \/ songLoaded
    \/ speedLoaded
    \/ instrumentChange

LiveSpec ==
    /\ Init
    /\ [][LiveNext]_vars
    /\ WF_vars(countdownInterval)
    /\ WF_vars(seekRestart)
    /\ WF_vars(songLoaded)
    /\ WF_vars(speedLoaded)

(***************************************************************************)
(* The sample-based build: the controller of game.js (src/unnamed/part_002)*)
(* with the audio of src/js/audio.js:103-326.  Here `transport` holds the  *)
(* song position audioContext.currentTime - state.startTime, whether the   *)
(* song is running, and state.scheduledNotes.                              *)
(***************************************************************************)
FirstSample == 36
LastSample == 96

\* audio.js:316-325, the note whose sample a MIDI number is played with
midiToNoteName(midiNote) == Max(FirstSample, Min(midiNote, LastSample))

\* audio.js:152-190: every sample from C2 to C7 is fetched; a file that fails
\* to load is logged and leaves no buffer
SampleSets == {FirstSample..LastSample, (FirstSample..LastSample) \ {64}}

\* audio.js:230-236, false where playMelodyNote returns early
HasBuffer(note, buffers) == midiToNoteName(note.midi) \in buffers

\* part_002:148-157 with stopAllNotes (audio.js:302-313); currentTime is not
\* written
pausePlaybackSampled(tr, time) ==
    [isPlaying   |-> FALSE,
     currentTime |-> time,
     transport   |-> [tr EXCEPT !.started = FALSE, !.events = {}]]

\* part_002:138 and audio.js:259-300: the clock is anchored at currentTime
scheduleNotesSampled(harmony, time, buffers) ==
    [seconds |-> time,
     started |-> TRUE,
     events  |-> {[id |-> harmony[k].id, time |-> harmony[k].time] :
                     k \in {j \in 1..Len(harmony) : /\ harmony[j].time > time
                                                    /\ HasBuffer(harmony[j], buffers)}}]

\* part_002:12-100, the state after init()
InitSampled ==
    /\ LET score == LoadedScoreSampled(SongFile(DefaultSong), 100, FALSE)
       IN  /\ midi = score.midi
           /\ notes = score.notes
           /\ melodyNotes = score.melodyNotes
           /\ harmonyNotes = score.harmonyNotes
           /\ groups = score.groups
           /\ duration = score.duration
           /\ pianoKeys = createPianoKeyboard(score.notes)
    /\ currentSpeed = 100
    /\ currentSong = DefaultSong
    /\ isPlaying = FALSE
    /\ gatedPause = FALSE
    /\ currentTime = 0
    /\ playedMelodyIds = {}
    /\ touchedMelodyCount = 0
    /\ finalScore = <<0, 1>>
    /\ allFingerPoints = <<>>
    /\ transport = StoppedTransport
    /\ countdowns = <<>>
    /\ restarts = 0
    /\ loads = <<>>
    /\ animating = TRUE
    /\ endScreens = 0
    /\ triggered = {}
    /\ instrumentBuffers \in SampleSets
    /\ canvasHeight = CanvasHeight
    /\ hitResult = <<>>
    /\ seekTarget = <<>>
    /\ lastSeek = <<>>
    /\ inputs = 0

\* part_002:225-242 with playMelodyNote (audio.js:227-257)
handleMelodyGateSampled(played, time) ==
    LET touchedNote == getTouchedNote(allFingerPoints, melodyNotes, played, time, pianoKeys)
        hit == IF touchedNote = <<>> \/ ~(gatedPause \/ isPlaying) THEN <<>>
               ELSE SelectSeq(simultaneousNotes(melodyNotes, played, touchedNote[1]),
                              LAMBDA note : HasBuffer(note, instrumentBuffers))
    IN  [played    |-> played \cup Ids(hit),
         touched   |-> touchedMelodyCount + Len(hit),
         sounded   |-> Ids(hit),
         countdown |-> touchedNote # <<>> /\ gatedPause]

\* part_002:244-276, one animation frame
animateSampled ==
    /\ animating
    /\ lastSeek' = <<>>
    /\ IF isPlaying /\ transport.seconds >= duration
       THEN LET paused == pausePlaybackSampled(transport, duration)
            IN  /\ isPlaying' = paused.isPlaying
                /\ currentTime' = paused.currentTime
                /\ transport' = paused.transport
                /\ finalScore' = showEndScreen(touchedMelodyCount, melodyNotes)
                /\ endScreens' = endScreens + 1
                /\ animating' = FALSE
                /\ triggered' = {}
                /\ UNCHANGED <<playedMelodyIds, touchedMelodyCount, countdowns, gatedPause>>
       ELSE LET time   == IF isPlaying THEN transport.seconds ELSE currentTime
                marked == IF isPlaying THEN AutoMarked(melodyNotes, playedMelodyIds, time)
                          ELSE playedMelodyIds
                gate   == IF isPlaying \/ gatedPause THEN handleMelodyGateSampled(marked, time)
                          ELSE [played |-> marked, touched |-> touchedMelodyCount,
                                sounded |-> {}, countdown |-> FALSE]
            IN  /\ currentTime' = time
                /\ playedMelodyIds' = gate.played
                /\ touchedMelodyCount' = gate.touched
                /\ triggered' = gate.sounded
                /\ countdowns' = IF gate.countdown THEN startPlayback(countdowns) ELSE countdowns
                /\ UNCHANGED <<isPlaying, transport, finalScore, endScreens, animating, gatedPause>>
    /\ UNCHANGED <<scoreVars, currentSpeed, currentSong, pianoKeys, allFingerPoints, restarts,
                   loads, inputs, instrumentBuffers, canvasHeight, hitResult, seekTarget>>

\* part_002:102-108, the play button
togglePlaybackSampled ==
    /\ lastSeek' = <<>>
    /\ inputs < MaxInputs /\ inputs' = inputs + 1
    /\ IF ~isPlaying /\ ~gatedPause
       THEN /\ countdowns' = startPlayback(countdowns)
            /\ UNCHANGED <<isPlaying, currentTime, transport>>
       ELSE LET paused == pausePlaybackSampled(transport, currentTime)
            IN  /\ isPlaying' = paused.isPlaying
                /\ currentTime' = paused.currentTime
                /\ transport' = paused.transport
                /\ UNCHANGED countdowns
    /\ UNCHANGED <<scoreVars, currentSpeed, currentSong, gatedPause, playedMelodyIds,
                   touchedMelodyCount, finalScore, pianoKeys, allFingerPoints, restarts,
                   loads, animating, endScreens, triggered, instrumentBuffers, canvasHeight, hitResult, seekTarget>>

\* part_002:122-145, a countdown timer fires
countdownIntervalSampled ==
    /\ lastSeek' = <<>>
    /\ \E i \in 1..Len(countdowns) :
          IF countdowns[i] - 1 < 0
          THEN /\ countdowns' = RemoveAt(countdowns, i)
               /\ isPlaying' = TRUE
               /\ gatedPause' = FALSE
               /\ transport' = scheduleNotesSampled(harmonyNotes, currentTime, instrumentBuffers)
          ELSE /\ countdowns' = [countdowns EXCEPT ![i] = @ - 1]
               /\ UNCHANGED <<isPlaying, gatedPause, transport>>
    /\ UNCHANGED <<scoreVars, currentSpeed, currentSong, currentTime, playedMelodyIds,
                   touchedMelodyCount, finalScore, pianoKeys, allFingerPoints, restarts,
                   loads, animating, endScreens, triggered, inputs, instrumentBuffers, canvasHeight, hitResult, seekTarget>>

\* part_002:159-175
seekToSampled(time) ==
    LET target == ClampTime(time, duration)
    IN  /\ lastSeek' = IF lastSeek = <<time>> THEN <<time, time>> ELSE <<time>>
        /\ inputs < MaxInputs /\ inputs' = inputs + 1
        /\ currentTime' = target
        /\ playedMelodyIds' = SeekPlayedIds(melodyNotes, target)
        /\ touchedMelodyCount' = 0
        /\ IF isPlaying
           THEN LET paused == pausePlaybackSampled(transport, target)
                IN  /\ isPlaying' = paused.isPlaying
                    /\ transport' = paused.transport
                    /\ restarts' = restarts + 1
           ELSE UNCHANGED <<isPlaying, transport, restarts>>
        /\ UNCHANGED <<scoreVars, currentSpeed, currentSong, gatedPause, finalScore, pianoKeys,
                       allFingerPoints, countdowns, loads, animating, endScreens, triggered,
                       instrumentBuffers, canvasHeight, hitResult, seekTarget>>

\* ui.js:65-68, the progress bar, and direct calls of seekTo
SeekSampled == \E time \in SeekTimes : seekToSampled(time)

NextSampled ==
    \/ Elapse
    \/ onHandsResults
    \/ animateSampled
    \/ togglePlaybackSampled
    \/ countdownIntervalSampled
    \/ SeekSampled
    \/ seekRestart

SampledSpec == InitSampled /\ [][NextSampled]_vars

(***************************************************************************)
(* getTouchedNote as a function of the state it reads (script.js:439-485): *)
(* a song stopped at any time, with any of its melody notes already        *)
(* played, any of the hand positions below and either canvas height; the   *)
(* keyboard is the song's, or empty as it is while a song is being loaded. *)
(***************************************************************************)
HitSong == "River Flows In You.mid"
CanvasHeights == {CanvasHeight, 540}

\* hand positions over key 64 (centre 450, note from 424 to 476) and over
\* key 62 (centre 390), at heights that meet the note rectangles' edges and
\* the edges of the hit band at one time or another
HitFingerLists ==
    {<<>>,
     <<[x |-> 450, y |-> 200]>>, <<[x |-> 424, y |-> 200]>>, <<[x |-> 423, y |-> 200]>>,
     <<[x |-> 476, y |-> 150]>>, <<[x |-> 477, y |-> 150]>>, <<[x |-> 450, y |-> 150]>>,
     <<[x |-> 450, y |-> 245]>>, <<[x |-> 450, y |-> 270]>>, <<[x |-> 450, y |-> 380]>>,
     <<[x |-> 424, y |-> 374]>>,
     <<[x |-> 390, y |-> 200], [x |-> 450, y |-> 200]>>,
     <<[x |-> 450, y |-> 200], [x |-> 390, y |-> 200]>>}

HitInit ==
    /\ LET score == LoadedScore(SongFile(HitSong), 100)
       IN  /\ midi = score.midi
           /\ notes = score.notes
           /\ melodyNotes = score.melodyNotes
           /\ harmonyNotes = score.harmonyNotes
           /\ groups = score.groups
           /\ duration = score.duration
           /\ pianoKeys \in {createPianoKeyboard(score.notes), <<>>}
           /\ playedMelodyIds \in SUBSET Ids(score.melodyNotes)
           /\ currentTime \in 0..Min(score.duration, MaxHitTime)
    /\ currentSpeed = 100
    /\ currentSong = HitSong
    /\ isPlaying = FALSE
    /\ gatedPause = FALSE
    /\ touchedMelodyCount = 0
    /\ finalScore = <<0, 1>>
    /\ allFingerPoints \in HitFingerLists
    /\ transport = StoppedTransport
    /\ countdowns = <<>>
    /\ restarts = 0
    /\ loads = <<>>
    /\ animating = TRUE
    /\ endScreens = 0
    /\ triggered = {}
    /\ lastSeek = <<>>
    /\ instrumentBuffers = {}
    /\ canvasHeight \in CanvasHeights
    /\ hitResult = <<>>
    /\ seekTarget = <<>>
    /\ inputs = 0

\* a getTouchedNote() that marks the note it returns as played
callGetTouchedNoteMarking ==
    LET touched == getTouchedNote(allFingerPoints, melodyNotes, playedMelodyIds,
                                  currentTime, pianoKeys)
    IN  /\ hitResult' = <<touched>>
        /\ playedMelodyIds' = IF touched = <<>> THEN playedMelodyIds
                               ELSE playedMelodyIds \cup {touched[1].id}
        /\ UNCHANGED <<midi, notes, melodyNotes, harmonyNotes, groups, duration,
                       currentSpeed, currentSong, isPlaying, gatedPause, currentTime,
                       touchedMelodyCount, finalScore, pianoKeys, allFingerPoints,
                       transport, countdowns, restarts, loads, animating, endScreens,
                       triggered, instrumentBuffers, canvasHeight, seekTarget, lastSeek,
                       inputs>>

\* a call of getTouchedNote() (script.js:439-485), from the gate at
\* script.js:425 or from the debug overlay at script.js:603; what it returns
\* is kept in hitResult
callGetTouchedNote ==
    /\ hitResult' = <<getTouchedNote(allFingerPoints, melodyNotes, playedMelodyIds,
                                     currentTime, pianoKeys)>>
    /\ UNCHANGED <<midi, notes, melodyNotes, harmonyNotes, groups, duration, currentSpeed,
                   currentSong, isPlaying, gatedPause, currentTime, playedMelodyIds,
                   touchedMelodyCount, finalScore, pianoKeys, allFingerPoints, transport,
                   countdowns, restarts, loads, animating, endScreens, triggered,
                   instrumentBuffers, canvasHeight, seekTarget, lastSeek,
                       inputs>>

HitNext == callGetTouchedNote

HitSpec == HitInit /\ [][HitNext]_vars

(***************************************************************************)
(* Properties of the loaders                                               *)
(***************************************************************************)
Occurrences(s, id) == Cardinality({k \in 1..Len(s) : s[k].id = id})

\* C1: after a load every note of the score is in exactly one of melodyNotes
\* and harmonyNotes, the two lists share no note id, and their lengths add up
\* to the length of notes.
ScorePartitioned ==
    midi # NoFile =>
        /\ Len(melodyNotes) + Len(harmonyNotes) = Len(notes)
        /\ Ids(melodyNotes) \cap Ids(harmonyNotes) = {}
        /\ \A k \in 1..Len(notes) :
              Occurrences(melodyNotes, notes[k].id) + Occurrences(harmonyNotes, notes[k].id) = 1

MaxPitch(group) == CHOOSE p \in {group[k].midi : k \in 1..Len(group)} :
                      \A k \in 1..Len(group) : group[k].midi <= p

FirstMaxIndex(group) == CHOOSE i \in 1..Len(group) :
                           /\ group[i].midi = MaxPitch(group)
                           /\ \A k \in 1..(i - 1) : group[k].midi < MaxPitch(group)

\* C2: the g-th melody note is the member of the g-th group with the highest
\* pitch, and among members of equal highest pitch the first in time order.
MelodyIsFirstHighest ==
    /\ Len(melodyNotes) = Len(groups)
    /\ \A g \in 1..Len(groups) :
          /\ \A k \in 1..Len(groups[g]) : melodyNotes[g].midi >= groups[g][k].midi
          /\ melodyNotes[g] = groups[g][FirstMaxIndex(groups[g])]

\* a group in which the highest pitch occurs twice and not in first place
TieBehindLowerNote ==
    \E g \in 1..Len(groups) :
        /\ FirstMaxIndex(groups[g]) > 1
        /\ \E k \in (FirstMaxIndex(groups[g]) + 1)..Len(groups[g]) :
              groups[g][k].midi = MaxPitch(groups[g])
        /\ melodyNotes[g] = groups[g][FirstMaxIndex(groups[g])]

RECURSIVE Flatten(_)
Flatten(gs) == IF gs = <<>> THEN <<>> ELSE Head(gs) \o Flatten(Tail(gs))

\* C3: the groups are cut by anchor: every member starts at most 0.05 s after
\* the first member of its group, and the first member of the next group
\* starts more than 0.05 s after the first member of the group before it.
GroupsAnchored ==
    /\ \A k \in 1..(Len(Flatten(groups)) - 1) :
          Flatten(groups)[k].time <= Flatten(groups)[k + 1].time
    /\ \A g \in 1..Len(groups) :
          /\ groups[g] # <<>>
          /\ \A k \in 1..Len(groups[g]) :
                Abs(groups[g][k].time - groups[g][1].time) <= epsilon
          /\ g > 1 => Abs(groups[g][1].time - groups[g - 1][1].time) > epsilon

(***************************************************************************)
(* Properties of the frame loop                                            *)
(***************************************************************************)

\* a frame drawn while the song is playing and has not reached its end
PlayingFrame == (animate \/ animateSampled) /\ isPlaying /\ transport.seconds < duration

\* a frame drawn while playing in which the clock reads duration or more
CompletingFrame == (animate \/ animateSampled) /\ isPlaying /\ transport.seconds >= duration

\* the melody notes (by index) a frame at `time` finds passed and unplayed
Passed(time) ==
    {k \in 1..Len(melodyNotes) : /\ melodyNotes[k].id \notin playedMelodyIds
                                 /\ melodyNotes[k].time < time - AutoMarkMargin}

\* C4: a frame while Playing that does not complete the song puts every
\* unplayed melody note with startTime < currentTime - 0.1 into playedIds, and
\* touchedCount moves only by the notes the gate sounded, none of which is an
\* auto-marked one.
AutoMarkUncounted ==
    [][PlayingFrame =>
          /\ currentTime' = transport.seconds
          /\ \A k \in Passed(currentTime') :
                /\ melodyNotes[k].id \in playedMelodyIds'
                /\ melodyNotes[k].id \notin triggered'
          /\ touchedMelodyCount' = touchedMelodyCount + Cardinality(triggered')]_vars

\* the song plays at half speed after two inputs (speed select, play button)
\* and a note is in playedIds that no touch has counted
AutoMarkedWhilePlaying ==
    /\ isPlaying
    /\ inputs = 2
    /\ currentSpeed = 50
    /\ lastSeek = <<>>
    /\ playedMelodyIds # {}
    /\ touchedMelodyCount = 0

\* the melody notes (by index) within epsilon of `note` that are unplayed once
\* the frame at `time` has auto-marked
Due(note, time) ==
    {k \in 1..Len(melodyNotes) :
        /\ melodyNotes[k].id \notin playedMelodyIds
        /\ ~(melodyNotes[k].time < time - AutoMarkMargin)
        /\ melodyNotes[k].time - note.time <= epsilon
        /\ note.time - melodyNotes[k].time <= epsilon}

\* C5: when the gate runs while Playing and the hit detector returns a touched
\* note, every unplayed melody note within 0.05 s of it is put into playedIds,
\* has its sound triggered, and touchedCount grows by one for each of them.
GateCredits ==
    [][PlayingFrame =>
          LET time        == transport.seconds
              touchedNote == getTouchedNote(allFingerPoints, melodyNotes,
                                            AutoMarked(melodyNotes, playedMelodyIds, time),
                                            time, pianoKeys)
          IN  touchedNote # <<>> =>
                 /\ \A k \in Due(touchedNote[1], time) :
                       /\ melodyNotes[k].id \in playedMelodyIds'
                       /\ melodyNotes[k].id \in triggered'
                 /\ touchedMelodyCount' =
                       touchedMelodyCount + Cardinality(Due(touchedNote[1], time))]_vars

\* one touch has credited two melody notes in one frame
TwoNotesOneTouch ==
    /\ isPlaying
    /\ Cardinality(triggered) = 2
    /\ touchedMelodyCount = 2

\* C6: when the song completes the final score is touchedCount /
\* melodyNotes.length * 100 if there are melody notes and exactly 0 if there are
\* none; it is a number in both cases (the denominator is not 0).
FinalScoreDefined ==
    [][endScreens' # endScreens =>
          /\ finalScore'[2] # 0
          /\ IF Len(melodyNotes) > 0
             THEN finalScore'[1] * Len(melodyNotes) = touchedMelodyCount * 100 * finalScore'[2]
             ELSE finalScore'[1] = 0]_vars

\* the song without a melody note has been played to its end
EmptySongCompleted ==
    /\ endScreens = 1
    /\ melodyNotes = <<>>
    /\ currentSong = "Silence.mid"
    /\ loads = <<>>
    /\ inputs = 2

\* C7: a frame while Playing in which the clock reads duration or more ends
\* with currentTime = duration, not playing, and one more end screen shown.
CompletionClamps ==
    [][CompletingFrame =>
          /\ currentTime' = duration
          /\ ~isPlaying'
          /\ endScreens' = endScreens + 1]_vars

\* C8: in every reachable state 0 <= currentTime <= duration of the loaded
\* score.
TimeInRange == 0 <= currentTime /\ currentTime <= duration

SeekIdempotent ==
    [][(lastSeek # <<>> /\ lastSeek' = <<lastSeek[1], lastSeek[1]>>) =>
          /\ playedMelodyIds' = playedMelodyIds
          /\ touchedMelodyCount' = touchedMelodyCount
          /\ currentTime' = currentTime]_vars

\* the same seek twice in a row, the first one made while the song played
SeekTwiceWhilePlaying ==
    /\ lastSeek = <<10, 10>>
    /\ restarts = 1
    /\ ~isPlaying
    /\ currentTime = 10

(***************************************************************************)
(* Properties of getTouchedNote                                            *)
(***************************************************************************)
HasReturned == hitResult # <<>>
ReturnedNote == hitResult # <<>> /\ hitResult[1] # <<>>
TheNote == hitResult[1][1]

\* C11: getTouchedNote never returns a note whose id is in playedMelodyIds,
\* and never a note that is not a member of melodyNotes.
ReturnsUnplayedMelodyNote ==
    ReturnedNote =>
        /\ TheNote.id \notin playedMelodyIds
        /\ \E k \in 1..Len(melodyNotes) : melodyNotes[k] = TheNote
        /\ \A k \in 1..Len(harmonyNotes) : harmonyNotes[k].id # TheNote.id

\* a hand on two overlapping notes of which the first has been played: the
\* second is returned
PlayedNoteSkipped ==
    /\ ReturnedNote
    /\ TheNote = melodyNotes[2]
    /\ melodyNotes[1].id \in playedMelodyIds
    /\ TouchesPlayedToo(allFingerPoints[1], melodyNotes[1], playedMelodyIds,
                        currentTime, pianoKeys)

\* the (hand point, melody note) pairs that overlap, by their indexes
TouchingPairs ==
    {pn \in (1..Len(allFingerPoints)) \X (1..Len(melodyNotes)) :
        Touches(allFingerPoints[pn[1]], melodyNotes[pn[2]], playedMelodyIds,
                currentTime, pianoKeys)}
PairBefore(a, b) == a[1] < b[1] \/ (a[1] = b[1] /\ a[2] < b[2])

\* C12: getTouchedNote returns the note of the first overlapping (hand
\* point, note) pair, hand points being the outer order and melody notes the
\* inner one; it returns null when no pair overlaps, when there is no hand
\* point and when the keyboard layout is empty.
ReturnsFirstPair ==
    HasReturned =>
        IF Len(allFingerPoints) = 0 \/ Len(pianoKeys) = 0 \/ TouchingPairs = {}
        THEN hitResult[1] = <<>>
        ELSE /\ ReturnedNote
             /\ \E first \in TouchingPairs :
                    /\ \A other \in TouchingPairs \ {first} : PairBefore(first, other)
                    /\ TheNote = melodyNotes[first[2]]

\* the first hand point is on the third melody note, the second on the
\* second melody note: the third note is returned
FirstHandWins ==
    /\ ReturnedNote
    /\ TheNote = melodyNotes[3]
    /\ <<2, 2>> \in TouchingPairs
    /\ <<1, 3>> \in TouchingPairs

\* C13: getTouchedNote is a pure query: a call changes none of currentTime,
\* playedMelodyIds, touchedMelodyCount, isPlaying, gatedPause, melodyNotes
\* and the hand-point list, so that a further call in the same tick returns
\* what the first one returned.
QueryIsPure ==
    [][HasReturned' =>
          /\ UNCHANGED <<currentTime, playedMelodyIds, touchedMelodyCount, isPlaying,
                         gatedPause, melodyNotes, allFingerPoints>>
          /\ getTouchedNote(allFingerPoints', melodyNotes', playedMelodyIds',
                            currentTime', pianoKeys') = hitResult'[1]]_vars

\* a call has returned the first melody note and nothing is marked played
QueriedNotMarked ==
    /\ ReturnedNote
    /\ TheNote = melodyNotes[1]
    /\ playedMelodyIds = {}
    /\ touchedMelodyCount = 0

\* the rectangle a falling note is drawn in: x in half pixels, y in pixels
NoteRect(note) ==
    LET keyData == FindKey(pianoKeys, note.midi)
        centre  == keyData.left + keyData.width \div 2
        half    == IF keyData.isWhite THEN WHITE_KEY_WIDTH - 4 ELSE BLACK_KEY_WIDTH - 2
        bottom  == pianoTopY - (note.time - currentTime) * pixelsPerSecond
    IN  [left   |-> centre - half,
         right  |-> centre + half,
         top    |-> bottom - Max(MinNoteHeight, note.duration * pixelsPerSecond),
         bottom |-> bottom]

\* timeDiff strictly between -0.5 s and 3.0 s
InTimeWindow(note) ==
    /\ note.time - currentTime > -50
    /\ note.time - currentTime < 300
\* the rectangle meets the band from hitZoneY - 50 to hitZoneY + 50, ends included
InHitBand(note) ==
    /\ NoteRect(note).bottom >= hitZoneY - 50
    /\ NoteRect(note).top <= hitZoneY + 50
\* the point is in the rectangle, edges included
OnNote(point, note) ==
    /\ point.x >= NoteRect(note).left
    /\ point.x <= NoteRect(note).right
    /\ point.y >= NoteRect(note).top
    /\ point.y <= NoteRect(note).bottom

\* C14: a note is returned only if its timeDiff is strictly inside
\* (-0.5 s, 3.0 s) and its rectangle meets the band [hitZoneY - 50,
\* hitZoneY + 50]; the band test and the point test include their limits, so
\* an unplayed note in the window whose rectangle just reaches the band, with
\* a hand point anywhere on it or on its edge, makes the call return a note.
TouchableWindowAndBand ==
    /\ ReturnedNote => InTimeWindow(TheNote) /\ InHitBand(TheNote)
    /\ (HasReturned /\ Len(pianoKeys) > 0) =>
          \A p \in 1..Len(allFingerPoints), n \in 1..Len(melodyNotes) :
             ( /\ melodyNotes[n].id \notin playedMelodyIds
               /\ InTimeWindow(melodyNotes[n])
               /\ InHitBand(melodyNotes[n])
               /\ OnNote(allFingerPoints[p], melodyNotes[n]) ) => ReturnedNote

\* the returned note's top is exactly at hitZoneY + 50 and the hand point is
\* on the rectangle's top left corner
TouchedOnBandLimit ==
    /\ ReturnedNote
    /\ NoteRect(TheNote).top = hitZoneY + 50
    /\ allFingerPoints[1].x = NoteRect(TheNote).left
    /\ allFingerPoints[1].y = NoteRect(TheNote).top

(***************************************************************************)
(* Properties of playing, pausing and restarting                           *)
(***************************************************************************)

\* C15: while Playing, a melody note the player has not touched stays
\* catchable until 0.5 s after its startTime: a frame whose currentTime is
\* strictly between startTime - 3.0 s and startTime + 0.5 s leaves the note
\* out of playedIds unless the gate sounds it in that frame.
CatchableUntilLookBehind ==
    [][PlayingFrame =>
          \A k \in 1..Len(melodyNotes) :
             ( /\ melodyNotes[k].id \notin playedMelodyIds
               /\ melodyNotes[k].id \notin triggered'
               /\ melodyNotes[k].time - 300 < currentTime'
               /\ currentTime' < melodyNotes[k].time + 50 )
             => melodyNotes[k].id \notin playedMelodyIds']_vars

\* C16: in the step in which Playing begins or resumes at currentTime, the
\* harmony notes handed to the audio scheduler are exactly those with
\* startTime >= currentTime, one with startTime = currentTime included.
SchedulesFromCurrentTime ==
    [][(~isPlaying /\ isPlaying') =>
          transport'.events =
              {[id |-> harmonyNotes[k].id, time |-> harmonyNotes[k].time] :
                  k \in {j \in 1..Len(harmonyNotes) : harmonyNotes[j].time >= currentTime'}}]_vars

\* C17: whenever the controller is not Playing (paused, completed, counting
\* down), no harmony trigger is pending in the audio scheduler: the step that
\* sets isPlaying to false leaves none.
NoPendingWhenNotPlaying == ~isPlaying => transport.events = {}

\* paused by the play button 0.05 s into the song (no seek target is 0.05 s),
\* before the last harmony note is due
PausedBeforeHarmonyDue ==
    /\ ~isPlaying
    /\ currentTime = 5
    /\ inputs = 2
    /\ \E k \in 1..Len(harmonyNotes) : harmonyNotes[k].time > currentTime

\* the countdown timers in flight before the step are all in flight after it
TimersSurvive ==
    /\ Len(countdowns) <= Len(countdowns')
    /\ SubSeq(countdowns', 1, Len(countdowns)) = countdowns

\* C18: pausing cancels the countdown: a step in which pausePlayback runs
\* with countdown timers in flight does not leave them in flight, so that no
\* timer started before the pause can later set the controller to Playing.
PauseCancelsCountdown ==
    [][(isPlaying /\ ~isPlaying' /\ countdowns # <<>>) => ~TimersSurvive]_vars

\* the steps between a pause and the next Playing when nothing is sought or
\* selected: the play button, the countdown timer, the frames
PlayButtonOrTimerOrFrame ==
    \/ togglePlayback \/ countdownInterval \/ animate
    \/ togglePlaybackSampled \/ countdownIntervalSampled \/ animateSampled

\* C19: pause followed by play resumes where it stopped: the pause keeps
\* playedIds and touchedCount and leaves currentTime at the position T reached
\* (not before the last tick); until Playing begins again currentTime,
\* playedIds and touchedCount stay as they are, and the step that begins
\* Playing anchors the clock at T, so that the ticks read on from T, not 0.
ResumesWherePaused ==
    [][/\ (isPlaying /\ ~isPlaying' /\ (togglePlayback \/ togglePlaybackSampled)) =>
            /\ UNCHANGED <<playedMelodyIds, touchedMelodyCount>>
            /\ currentTime' >= currentTime
       /\ (~isPlaying /\ PlayButtonOrTimerOrFrame) =>
            /\ UNCHANGED <<currentTime, playedMelodyIds, touchedMelodyCount>>
            /\ isPlaying' => (transport'.started /\ transport'.seconds = currentTime)]_vars

\* playing again after a pause at 0.05 s: the clock reads 0.05 s, the harmony
\* note at 0 is not scheduled again and the two notes touched before the
\* pause are still counted
ResumedAtPausePosition ==
    /\ isPlaying
    /\ inputs = 3
    /\ countdowns = <<>>
    /\ currentTime = 5
    /\ transport.seconds = 5
    /\ transport.events # {}
    /\ \A e \in transport.events : e.time >= 5
    /\ touchedMelodyCount = 2

\* C20: when a song or speed handler has finished, whether it was invoked
\* while Stopped or while Playing, currentTime is 0, playedIds is empty and
\* touchedCount is 0, so that playback, if it restarts, starts from time 0 of
\* the new score.
HandlerResetsPosition ==
    [][(songLoaded \/ speedLoaded) =>
          /\ currentTime' = 0
          /\ playedMelodyIds' = {}
          /\ touchedMelodyCount' = 0]_vars

(***************************************************************************)
(* Properties of the song, speed and seek handlers                         *)
(***************************************************************************)
\* a song or speed handler that was invoked while Playing has not finished
ChangedWhilePlaying == \E i \in 1..Len(loads) : loads[i].wasPlaying

\* C21: a song or speed handler invoked while Playing stops and restarts the
\* controller: with no further request from the user (the handler's was the
\* last input of the session), the controller is eventually Playing again
\* with the handler finished.
RestartsAfterChange ==
    (ChangedWhilePlaying /\ inputs = MaxInputs) ~> (isPlaying /\ loads = <<>>)

\* the note of the parsed file that a note of the score was made from
SourceOf(file, note) == file[note.id[1] + 1][note.id[2] + 1]

FailedLoadLeavesState ==
    [][(loadFailed /\ inputs = 1) =>
          /\ notes' = SongScore[DefaultSong, 100].notes
          /\ melodyNotes' = SongScore[DefaultSong, 100].melodyNotes
          /\ harmonyNotes' = SongScore[DefaultSong, 100].harmonyNotes
          /\ duration' = SongScore[DefaultSong, 100].duration
          /\ pianoKeys' = createPianoKeyboard(SongScore[DefaultSong, 100].notes)
          /\ ~isPlaying'
          /\ currentTime' = 0
          /\ playedMelodyIds' = {}
          /\ touchedMelodyCount' = 0]_vars

\* C24: a load that extracts zero notes ends in an error: an empty Score is
\* never installed as the current score (so the keyboard range is never
\* computed from an empty pitch set).
EmptyScoreRejected == midi # NoFile => Len(notes) > 0

\* C25: without a hand point the melody gate does nothing: a step taken while
\* the hand-point list is empty never raises touchedMelodyCount and sounds no
\* melody note, and a frame drawn then sounds nothing and starts no playback.
NoTouchNoGate ==
    [][allFingerPoints = <<>> =>
          /\ touchedMelodyCount' <= touchedMelodyCount
          /\ triggered' \subseteq triggered
          /\ animate => (triggered' = {} /\ countdowns' = countdowns)]_vars

\* the song, started by the play button alone, has run to its end with no
\* hand in view: both melody notes went by unplayed and uncredited
PassedUntouched ==
    /\ endScreens = 1 /\ inputs = 1
    /\ allFingerPoints = <<>>
    /\ playedMelodyIds = {}
    /\ touchedMelodyCount = 0
    /\ finalScore = <<0, 2>>
    /\ triggered = {}

\* the notes scheduled on the transport
ScheduledIds == {e.id : e \in transport.events}

\* C26: melody notes sound only when touched: whenever the harmony scheduler
\* puts events on the transport, each is a harmony note and none is a melody
\* note of the score; and melody notes are sounded only by a frame whose hit
\* detection returned a note, and what it sounds are melody notes.
MelodyOnlyWhenTouched ==
    [][/\ transport'.events # transport.events =>
             /\ ScheduledIds' \subseteq Ids(harmonyNotes')
             /\ ScheduledIds' \cap Ids(melodyNotes') = {}
       /\ (triggered' # {} /\ triggered' # triggered) =>
             /\ animate
             /\ isPlaying \/ gatedPause
             /\ triggered' \subseteq Ids(melodyNotes)
             /\ getTouchedNote(allFingerPoints, melodyNotes,
                               AutoMarked(melodyNotes, playedMelodyIds, currentTime'),
                               currentTime', pianoKeys) # <<>>]_vars

\* while harmony is scheduled on the transport a touch has sounded the melody
TouchSoundedMelody ==
    /\ isPlaying
    /\ transport.events # {}
    /\ triggered # {}
    /\ touchedMelodyCount > 0

\* C27: a seekTo made while playing pauses the song and sets its restart;
\* with no further input the song is eventually playing again, and when it
\* starts playing the transport stands at the clamped seek target; a seekTo
\* made while not playing leaves isPlaying and gatedPause as they are and
\* sets no restart timer and no countdown.
SeekReanchors ==
    /\ [][(lastSeek' # <<>> /\ ~isPlaying) =>
             /\ ~isPlaying'
             /\ gatedPause' = gatedPause
             /\ restarts' = restarts
             /\ countdowns' = countdowns]_vars
    /\ [][(lastSeek' # <<>> /\ isPlaying) =>
             /\ ~isPlaying'
             /\ restarts' = restarts + 1
             /\ currentTime' = ClampTime(lastSeek'[1], duration)]_vars
    /\ [][(seekTarget # <<>> /\ isPlaying') =>
             /\ transport'.started
             /\ transport'.seconds = seekTarget[1]]_vars
    /\ (seekTarget # <<>> /\ inputs = MaxInputs) ~> isPlaying

\* C28: a play request starts a countdown only when none is running: at most
\* one countdown timer is pending at any time.
OneCountdownAtMost == Len(countdowns) <= 1

\* the firings a countdown timer has had, from the value of its `countdown`
FiringsSoFar(c) == CountdownStart - c

\* C29: the countdown is three one-second steps: a lone countdown timer
\* started while not playing sets isPlaying on its third firing, not on an
\* earlier or a later one; until then isPlaying stays false, and no firing
\* moves currentTime.
PlaysOnThirdFiring ==
    [][(/\ Len(countdowns) = 1 /\ ~isPlaying
        /\ countdowns' # countdowns /\ Len(countdowns') <= 1) =>
          /\ isPlaying' <=> FiringsSoFar(countdowns[1]) = 2
          /\ currentTime' = currentTime]_vars

\* C30: after every load duration is the total extent of the score just
\* loaded: no note of the score ends after duration.
DurationIsExtent ==
    midi # NoFile =>
       \A k \in 1..Len(notes) : notes[k].time + notes[k].duration <= duration

\* the pitches a keyboard for the notes ns has a key for
KeyRange(ns) ==
    IF ns = <<>> THEN {}
    ELSE Max(MinKey, MinPitch(ns, 1) - KeyMargin)..Min(MaxKey, MaxPitchOf(ns, 1) + KeyMargin)

\* C31: the keyboard the song handler leaves has exactly one key for every
\* pitch from max(21, minPitch - 3) to min(108, maxPitch + 3) of the score
\* just loaded and no other key, so no key of an earlier layout remains.
KeyboardIsScoreRange ==
    [][songLoaded =>
          /\ {pianoKeys'[k].midi : k \in 1..Len(pianoKeys')} = KeyRange(notes')
          /\ \A j, k \in 1..Len(pianoKeys') :
                pianoKeys'[j].midi = pianoKeys'[k].midi => j = k]_vars

\* the events on the transport that have not yet come due
PendingEvents == {e \in transport.events : e.time >= transport.seconds}

\* C32: when a song or speed change completes, every harmony event still
\* pending on the transport is a note of the harmonyNotes just installed:
\* nothing scheduled from the replaced score survives.
NoStaleTriggers ==
    [][(songLoaded \/ speedLoaded) =>
          \A e \in PendingEvents' :
             \E k \in 1..Len(harmonyNotes') :
                /\ harmonyNotes'[k].id = e.id
                /\ harmonyNotes'[k].time = e.time]_vars

\* C33: playedMelodyIds only ever holds ids of melody notes of the score
\* that is loaded.
PlayedAreCurrentMelody == playedMelodyIds \subseteq Ids(melodyNotes)

\* at half speed, where the first note of the file is a melody note, that
\* note has been marked or played after the speed change completed
PlayedAfterSpeedChange ==
    /\ currentSpeed = 50 /\ loads = <<>>
    /\ <<0, 0>> \in playedMelodyIds
    /\ <<0, 0>> \notin Ids(SongScore[DefaultSong, 100].melodyNotes)

\* C34: touchedMelodyCount <= number of ids in playedMelodyIds <= number of
\* melody notes, so the final score, kept as <<numerator, denominator>>,
\* lies in [0, 100].
CreditedAtMostOnce ==
    /\ touchedMelodyCount <= Cardinality(playedMelodyIds)
    /\ Cardinality(playedMelodyIds) <= Len(melodyNotes)
    /\ finalScore[2] > 0
    /\ finalScore[1] >= 0
    /\ finalScore[1] <= 100 * finalScore[2]

\* the song has run to its end after a touch credited both melody notes
CompletedWithFullScore ==
    /\ endScreens = 1
    /\ touchedMelodyCount = 2
    /\ Cardinality(playedMelodyIds) = 2
    /\ finalScore = <<200, 2>>

\* C35: the gated pause is unreachable: gatedPause is false in every
\* reachable state, so the controller is stopped, counting down or playing.
NeverGatedPaused == ~gatedPause

\* the play button has paused a song in which a touch was credited: the
\* pause went through isPlaying, and the controller is stopped, not gated
PausedAfterTouchNotGated ==
    /\ ~gatedPause /\ ~isPlaying
    /\ inputs = 2 /\ currentTime = 5
    /\ touchedMelodyCount > 0
    /\ countdowns = <<>>

\* C36: a frame drawn while the controller is not playing changes nothing in
\* the playback state: currentTime, playedMelodyIds, touchedMelodyCount and
\* isPlaying are after the frame what they were before it.
IdleFrameChangesNothing ==
    [][(animate /\ ~isPlaying) =>
          /\ currentTime' = currentTime
          /\ playedMelodyIds' = playedMelodyIds
          /\ touchedMelodyCount' = touchedMelodyCount
          /\ isPlaying' = isPlaying]_vars

\* a countdown is running and a finger lies on an unplayed melody note: the
\* frames drawn since the play request have credited nothing
FingerOnNoteWhileCounting ==
    /\ ~isPlaying /\ countdowns # <<>> /\ countdowns[1] < CountdownStart
    /\ animating
    /\ getTouchedNote(allFingerPoints, melodyNotes, playedMelodyIds,
                      currentTime, pianoKeys) # <<>>
    /\ touchedMelodyCount = 0 /\ triggered = {}

\* C37: the frame that detects completion requests no further frame and
\* nothing else restarts the loop: from the end screen on no frame is
\* pending, no second end screen is shown, no melody note is credited, and
\* currentTime and playedMelodyIds change only when an input is handled or a
\* load completes, also while the song plays again after a seek and a play
\* request.
LoopEndsAtCompletion ==
    [][/\ endScreens' > endScreens => ~animating'
       /\ endScreens >= 1 =>
             /\ ~animating'
             /\ endScreens' = endScreens
             /\ touchedMelodyCount' <= touchedMelodyCount
             /\ triggered' = {}
             /\ (currentTime' # currentTime \/ playedMelodyIds' # playedMelodyIds)
                   => (inputs' # inputs \/ Len(loads') < Len(loads))]_vars

\* after the end screen the song is playing again (a later play request, or a
\* countdown that was still running), and the clock has run well ahead of
\* currentTime
PlayingAgainUnseen ==
    /\ endScreens = 1 /\ isPlaying
    /\ ~animating
    /\ transport.seconds > currentTime + MaxFrameGap

\* C38: melodyNotes is strictly increasing in start time: two consecutive
\* melody notes never share a start time.
MelodyStrictlyIncreasing ==
    \A k \in 1..(Len(melodyNotes) - 1) : melodyNotes[k].time < melodyNotes[k + 1].time

\* a loaded score with two consecutive melody notes less than epsilon apart
MelodyNotesCloserThanEpsilon ==
    /\ midi # NoFile
    /\ \E k \in 1..(Len(melodyNotes) - 1) :
          melodyNotes[k + 1].time - melodyNotes[k].time < epsilon

\* the triggers one scheduling pass at currentTime = time puts on the transport
PassTriggers(harmony, time) ==
    {[id |-> harmony[k].id, time |-> harmony[k].time] :
        k \in {j \in 1..Len(harmony) : harmony[j].time >= time}}

\* C39: each harmony note has at most one pending trigger: a scheduling pass
\* (a countdown completing, also while the song is already playing) leaves on
\* the transport the triggers of this pass alone, nothing of an earlier pass,
\* and at no time do two triggers on the transport belong to one note.
OneTriggerPerHarmonyNote ==
    /\ [](\A e1, e2 \in transport.events : e1.id = e2.id => e1 = e2)
    /\ [][(Len(countdowns') < Len(countdowns) /\ isPlaying') =>
             /\ transport'.events = PassTriggers(harmonyNotes, currentTime)
             /\ \A j, k \in 1..Len(harmonyNotes) :
                   harmonyNotes[j].id = harmonyNotes[k].id => j = k]_vars

\* Playing began twice in a row: two play requests started two countdowns, the
\* first completed at 0 s and the second while the song was playing, after
\* the harmony note at 0 s and before the one at 0.08 s (no seek target lies
\* there, and a pause and resume takes a third input); the later note has its
\* one trigger
ScheduledTwiceRunning ==
    /\ isPlaying /\ inputs = 2 /\ countdowns = <<>>
    /\ currentSong = DefaultSong /\ currentSpeed = 100
    /\ transport.events = {[id |-> <<1, 0>>, time |-> 8]}

====
